---- MODULE Spec2Model ----
(***************************************************************************)
(* Model of src/app.py (Dolores): the Streamlit session state machine run  *)
(* by main(), and the pure trigger matchers check_memory_triggers and      *)
(* analyze_branch.                                                         *)
(*                                                                         *)
(* Text is a sequence of one-character strings.  A Python Optional value   *)
(* is a sequence of length 0 (None) or 1 (the value).                      *)
(***************************************************************************)
EXTENDS Integers, Sequences, FiniteSets, TLC

VARIABLES
    loop_data,      \* loop.json as loaded by load_json
    soul_data,      \* soul.json as loaded by load_json
    act_num,        \* st.session_state.act_num
    history,        \* st.session_state.history
    opening_shown,  \* st.session_state.opening_shown
    pending_input,  \* st.session_state.pending_input
    audio_cache,    \* st.session_state.audio_cache
    run,            \* what the last run of main() did (observation only)
    synth_log,      \* every call of synthesize_speech made from main()
    opening_count,  \* per act number, how often line 164 appended its opening
    m_pc,           \* matcher harness: which matcher was applied last
    m_input,        \* matcher harness: user_input argument (prompt harness: the arguments)
    m_soul,         \* matcher harness: soul_data argument
    m_act,          \* matcher harness: current_act argument
    m_result        \* matcher harness: value returned

vars == <<loop_data, soul_data, act_num, history, opening_shown, pending_input,
          audio_cache, run, synth_log, opening_count,
          m_pc, m_input, m_soul, m_act, m_result>>

session_vars == <<act_num, history, opening_shown, pending_input, audio_cache>>

matcher_vars == <<m_pc, m_input, m_soul, m_act, m_result>>

-----------------------------------------------------------------------------
(* Bounds of the model *)

MaxHistory == 4

MaxTable == 2

MaxPromptHistory == 12

-----------------------------------------------------------------------------
(* Optional values and truthiness *)

None == << >>

Some(x) == << x >>

\* Python truthiness of an Optional[str] / Optional[bytes] / list
Truthy(opt) == opt # None /\ opt[1] # << >>

NonEmpty(list) == list # << >>

-----------------------------------------------------------------------------
(* Text *)

UpperChars == <<"A","B","C","D","E","F","G","H","I","J","K","L","M",
                "N","O","P","Q","R","S","T","U","V","W","X","Y","Z">>

LowerChars == <<"a","b","c","d","e","f","g","h","i","j","k","l","m",
                "n","o","p","q","r","s","t","u","v","w","x","y","z">>

lower_char(c) ==
    IF \E i \in 1..Len(UpperChars) : UpperChars[i] = c
    THEN LowerChars[CHOOSE i \in 1..Len(UpperChars) : UpperChars[i] = c]
    ELSE c

\* str.lower()
lower(s) == [i \in 1..Len(s) |-> lower_char(s[i])]

\* the Python expression  needle in haystack  on str
contains(haystack, needle) ==
    \E off \in 0..(Len(haystack) - Len(needle)) :
        \A i \in 1..Len(needle) : haystack[off + i] = needle[i]

Digits == <<"0","1","2","3","4","5","6","7","8","9">>

RECURSIVE int_to_str(_)
\* str(n) for n >= 0, as the f-string formats an int
int_to_str(n) ==
    IF n < 10 THEN << Digits[n + 1] >>
    ELSE Append(int_to_str(n \div 10), Digits[(n % 10) + 1])

PrefixLen == 50

\* content[:50]
prefix50(content) ==
    SubSeq(content, 1, IF Len(content) < PrefixLen THEN Len(content) ELSE PrefixLen)

msg_key_content_only(idx, content) == prefix50(content)

\* f"{idx}_{content[:50]}"
msg_key(idx, content) == int_to_str(idx) \o <<"_">> \o prefix50(content)

NEXT_ACT == <<"n","e","x","t","_","a","c","t">>

-----------------------------------------------------------------------------
(* Trigger matchers *)

\* the inner loop "for keyword in keywords: if keyword.lower() in user_lower"
any_keyword_case_sensitive(keywords, user_lower) ==
    \E k \in 1..Len(keywords) : contains(user_lower, keywords[k])

any_keyword_operands_swapped(keywords, user_lower) ==
    \E k \in 1..Len(keywords) : contains(lower(keywords[k]), user_lower)

any_keyword_matches(keywords, user_lower) ==
    \E k \in 1..Len(keywords) : contains(user_lower, lower(keywords[k]))

\* fragment_data.get("trigger_keywords", []) with the legacy fallback
fragment_keywords(fragment_data) ==
    IF NonEmpty(fragment_data.trigger_keywords)
    THEN fragment_data.trigger_keywords
    ELSE fragment_data.keywords

\* fragment_data.get("fragment") with the legacy fallback
fragment_content(fragment_data) ==
    IF Truthy(fragment_data.fragment)
    THEN fragment_data.fragment
    ELSE fragment_data.content

\* soul_data.get("memory_fragments", []) with the legacy fallback
soul_fragments(sd) ==
    IF NonEmpty(sd.memory_fragments) THEN sd.memory_fragments ELSE sd.memories

RECURSIVE scan_fragments(_, _, _)
\* the loop "for fragment_data in fragments", from position i on
scan_fragments(fragments, user_lower, i) ==
    IF i > Len(fragments) THEN None
    ELSE IF any_keyword_matches(fragment_keywords(fragments[i]), user_lower)
         THEN fragment_content(fragments[i])
         ELSE scan_fragments(fragments, user_lower, i + 1)

check_memory_triggers(user_input, sd) ==
    scan_fragments(soul_fragments(sd), lower(user_input), 1)

RECURSIVE scan_branches(_, _, _)
\* the loop "for branch in branches", from position i on
scan_branches(branches, user_lower, i) ==
    IF i > Len(branches) THEN None
    ELSE IF any_keyword_matches(branches[i].triggers, user_lower)
         THEN branches[i].direction
         ELSE scan_branches(branches, user_lower, i + 1)

analyze_branch(user_input, current_act) ==
    scan_branches(current_act.branches, lower(user_input), 1)

-----------------------------------------------------------------------------
(* External endpoints: an outcome is what the HTTP exchange produced *)

\* try: return result["choices"][0]["message"]["content"]  except: return None
call_glm_api(outcome) == IF outcome.ok THEN Some(outcome.content) ELSE None

\* try: return response.content  except: return None
synthesize_speech(outcome) == IF outcome.ok THEN Some(outcome.content) ELSE None

-----------------------------------------------------------------------------
(* Text constants *)

T_DESC == <<"d">>

T_A == <<"A">>

T_B == <<"B">>

T_C == <<"C">>

T_D == <<"D">>

T_HI == <<"h","i">>

T_GO_UP == <<"G","O">>

T_GO == <<"g","o">>

T_GO_MIXED == <<"G","o">>

T_NO == <<"n","o">>

T_O == <<"o">>

T_O_UP == <<"O">>

T_X == <<"x">>

T_Z == <<"z">>

T_M == <<"m">>

T_KEYLIKE == <<"1","_","h","i">>

T_MP3 == <<"m","p","3">>

-----------------------------------------------------------------------------
(* Scripts, memory tables and endpoint outcomes used by the session *)

Branch(triggers, direction) == [triggers |-> triggers, direction |-> Some(direction)]

Act(title, opening_line, branches) ==
    [title |-> title, description |-> T_DESC, narrative_beats |-> << >>,
     opening_line |-> opening_line, branches |-> branches]

Fragment(trigger_keywords, fragment) ==
    [trigger_keywords |-> trigger_keywords, keywords |-> << >>,
     fragment |-> Some(fragment), content |-> None]

LegacyFragment(keywords, content) ==
    [trigger_keywords |-> << >>, keywords |-> keywords,
     fragment |-> None, content |-> Some(content)]

ActA == Act(T_A, Some(T_HI), << Branch(<< T_GO_UP >>, NEXT_ACT) >>)

ActB == Act(T_B, Some(T_HI), << Branch(<< T_NO >>, T_X), Branch(<< T_O >>, NEXT_ACT) >>)

ActC == Act(T_C, None, << Branch(<< T_Z, T_GO >>, NEXT_ACT) >>)

ActD == Act(T_D, Some(<< >>), << Branch(<< T_GO >>, NEXT_ACT) >>)

Scripts ==
    { [acts |-> << >>],
      [acts |-> << ActA >>],
      [acts |-> << ActA, ActB >>],
      [acts |-> << ActC, ActA >>],
      [acts |-> << ActC, ActD, ActB >>] }

Souls ==
    { [memory_fragments |-> << Fragment(<< T_O_UP >>, T_M) >>, memories |-> << >>] }

UserInputs == { T_GO_MIXED, T_NO, T_Z }

\* what st.chat_input returns in a run
ChatValues == { None, Some(<< >>) } \cup { Some(t) : t \in UserInputs }

Long51 == [i \in 1..(PrefixLen + 1) |-> "a"]

ReplyTexts == { << >>, T_HI, T_KEYLIKE, Long51 }

CompletionOutcomes ==
    { [ok |-> FALSE, content |-> << >>] } \cup { [ok |-> TRUE, content |-> t] : t \in ReplyTexts }

SynthesisOutcomes ==
    { [ok |-> FALSE, content |-> << >>], [ok |-> TRUE, content |-> T_MP3] }

-----------------------------------------------------------------------------
(* Pieces of main() *)

Message(role, content) == [role |-> role, content |-> content]

init_act_num_zero_based == 1 - 1

\* init_session_state: st.session_state.act_num = 1
init_act_num == 1

\* "if st.session_state.act_num > len(acts)": the story has ended
story_ended(n, acts) == n > Len(acts)

current_act_always_first(acts, n) == acts[1]

\* current_act = acts[st.session_state.act_num - 1]
current_act_of(acts, n) == acts[n]

get_current_act_opening(ld, n) ==
    IF 0 <= n - 1 /\ n - 1 < Len(ld.acts) THEN ld.acts[n].opening_line ELSE None

show_opening_never_marks(h, shown, ld, n) ==
    LET opening == get_current_act_opening(ld, n)
    IN  IF ~shown /\ Truthy(opening)
        THEN [history |-> Append(h, Message("assistant", opening[1])),
              opening_shown |-> shown, appended |-> TRUE]
        ELSE [history |-> h, opening_shown |-> shown, appended |-> FALSE]

\* "if not opening_shown: opening = ...; if opening: append, opening_shown = True"
show_opening(h, shown, ld, n) ==
    LET opening == get_current_act_opening(ld, n)
    IN  IF ~shown /\ Truthy(opening)
        THEN [history |-> Append(h, Message("assistant", opening[1])),
              opening_shown |-> TRUE, appended |-> TRUE]
        ELSE [history |-> h, opening_shown |-> shown, appended |-> FALSE]

\* the render loop: the key whose clip st.audio plays, if any
render_audio(h, cache) ==
    IF Len(h) > 0 /\ h[Len(h)].role = "assistant"
       /\ msg_key(Len(h) - 1, h[Len(h)].content) \in DOMAIN cache
    THEN Some(msg_key(Len(h) - 1, h[Len(h)].content))
    ELSE None

advance_act_any_direction(branch_direction, n, acts) ==
    n < Len(acts)

\* "if branch_direction == "next_act" and st.session_state.act_num < len(acts)"
advance_act(branch_direction, n, acts) ==
    branch_direction = Some(NEXT_ACT) /\ n < Len(acts)

\* the literal parts of the prompt; each stands for the fixed text of the source
SYSTEM_PROMPT == <<"[persona]">>

L_ACT_NUMBER == <<"[current act: no.]">>

L_ACT_NUMBER_END == <<"[act]">>

L_TITLE == <<"[act title: ]">>

L_DESCRIPTION == <<"[act description: ]">>

L_BEATS == <<"[narrative beats: ]">>

L_MEMORY == <<"[triggered memory: ]">>

L_BRANCH == <<"[branch direction: ]">>

BEAT_SEPARATOR == <<" ", "|", " ">>

NEWLINE == <<"\n">>

RECURSIVE join(_, _)
\* sep.join(parts)
join(sep, parts) ==
    IF Len(parts) = 0 THEN << >>
    ELSE IF Len(parts) = 1 THEN parts[1]
    ELSE parts[1] \o sep \o join(sep, Tail(parts))

\* context_parts as built by lines 195-211
context_parts(n, current_act, memory_content, branch_direction) ==
    << L_ACT_NUMBER \o int_to_str(n) \o L_ACT_NUMBER_END,
       L_TITLE \o current_act.title,
       L_DESCRIPTION \o current_act.description >>
    \o (IF NonEmpty(current_act.narrative_beats)
        THEN << L_BEATS \o join(BEAT_SEPARATOR, current_act.narrative_beats) >>
        ELSE << >>)
    \o (IF Truthy(memory_content) THEN << L_MEMORY \o memory_content[1] >> ELSE << >>)
    \o (IF Truthy(branch_direction) THEN << L_BRANCH \o branch_direction[1] >> ELSE << >>)

HistoryWindow == 10

recent_history_oldest_first(h) ==
    SubSeq(h, 1, IF Len(h) > HistoryWindow THEN HistoryWindow ELSE Len(h))

\* st.session_state.history[-10:]
recent_history(h) ==
    SubSeq(h, IF Len(h) > HistoryWindow THEN Len(h) - HistoryWindow + 1 ELSE 1, Len(h))

\* the list "messages" handed to call_glm_api (lines 191-219)
build_messages(h, n, current_act, memory_content, branch_direction) ==
    << Message("system", SYSTEM_PROMPT),
       Message("system",
               join(NEWLINE, context_parts(n, current_act, memory_content, branch_direction))) >>
    \o recent_history(h)

on_response_audio_gates_advance(h, n, shown, cache, ai_response, branch_direction, acts, s_out) ==
    LET h2        == Append(h, Message("assistant", ai_response[1]))
        msg_idx   == Len(h2) - 1
        key       == msg_key(msg_idx, ai_response[1])
        call      == key \notin DOMAIN cache
        audio     == IF call THEN synthesize_speech(s_out) ELSE None
        cache2    == IF call /\ Truthy(audio) THEN cache @@ (key :> audio[1]) ELSE cache
        adv       == Truthy(audio) /\ advance_act(branch_direction, n, acts)
    IN  [history |-> h2, audio_cache |-> cache2,
         act_num |-> IF adv THEN n + 1 ELSE n,
         opening_shown |-> IF adv THEN FALSE ELSE shown,
         synth |-> IF call THEN << [idx |-> msg_idx, text |-> ai_response[1]] >> ELSE << >>,
         audio_data |-> audio]

on_response_keeps_opening_shown(h, n, shown, cache, ai_response, branch_direction, acts, s_out) ==
    LET h2        == Append(h, Message("assistant", ai_response[1]))
        msg_idx   == Len(h2) - 1
        key       == msg_key(msg_idx, ai_response[1])
        call      == key \notin DOMAIN cache
        audio     == IF call THEN synthesize_speech(s_out) ELSE None
        cache2    == IF call /\ Truthy(audio) THEN cache @@ (key :> audio[1]) ELSE cache
        adv       == advance_act(branch_direction, n, acts)
    IN  [history |-> h2, audio_cache |-> cache2,
         act_num |-> IF adv THEN n + 1 ELSE n,
         opening_shown |-> shown,
         synth |-> IF call THEN << [idx |-> msg_idx, text |-> ai_response[1]] >> ELSE << >>,
         audio_data |-> audio]

\* the body of "if ai_response:" (lines 225-239)
on_response(h, n, shown, cache, ai_response, branch_direction, acts, s_out) ==
    LET h2        == Append(h, Message("assistant", ai_response[1]))
        msg_idx   == Len(h2) - 1
        key       == msg_key(msg_idx, ai_response[1])
        call      == key \notin DOMAIN cache
        audio     == IF call THEN synthesize_speech(s_out) ELSE None
        cache2    == IF call /\ Truthy(audio) THEN cache @@ (key :> audio[1]) ELSE cache
        adv       == advance_act(branch_direction, n, acts)
    IN  [history |-> h2, audio_cache |-> cache2,
         act_num |-> IF adv THEN n + 1 ELSE n,
         opening_shown |-> IF adv THEN FALSE ELSE shown,
         synth |-> IF call THEN << [idx |-> msg_idx, text |-> ai_response[1]] >> ELSE << >>,
         audio_data |-> audio]

on_no_response_still_advances(h, n, shown, cache, branch_direction, acts) ==
    LET adv == advance_act(branch_direction, n, acts)
    IN  [history |-> h, audio_cache |-> cache,
         act_num |-> IF adv THEN n + 1 ELSE n,
         opening_shown |-> IF adv THEN FALSE ELSE shown,
         synth |-> << >>, audio_data |-> None]

on_no_response_rolls_back(h, n, shown, cache, branch_direction, acts) ==
    [history |-> SubSeq(h, 1, Len(h) - 1), audio_cache |-> cache, act_num |-> n,
     opening_shown |-> shown, synth |-> << >>, audio_data |-> None]

\* "if ai_response:" is false: lines 225-239 are skipped
on_no_response(h, n, shown, cache, branch_direction, acts) ==
    [history |-> h, audio_cache |-> cache, act_num |-> n,
     opening_shown |-> shown, synth |-> << >>, audio_data |-> None]

process_pending_keeps_pending(h, n, shown, cache, user_input, sd, acts, c_out, s_out) ==
    LET memory_content   == check_memory_triggers(user_input, sd)
        branch_direction == analyze_branch(user_input, current_act_of(acts, n))
        messages         == build_messages(h, n, current_act_of(acts, n),
                                           memory_content, branch_direction)
        ai_response      == call_glm_api(c_out)
        r == IF Truthy(ai_response)
             THEN on_response(h, n, shown, cache, ai_response, branch_direction, acts, s_out)
             ELSE on_no_response(h, n, shown, cache, branch_direction, acts)
    IN  [history |-> r.history, audio_cache |-> r.audio_cache, act_num |-> r.act_num,
         opening_shown |-> r.opening_shown, pending_input |-> Some(user_input),
         synth |-> r.synth, audio_data |-> r.audio_data,
         memory_content |-> memory_content, branch_direction |-> branch_direction,
         messages |-> messages, ai_response |-> ai_response]

\* the body of "if st.session_state.pending_input:" (lines 181-241)
process_pending(h, n, shown, cache, user_input, sd, acts, c_out, s_out) ==
    LET memory_content   == check_memory_triggers(user_input, sd)
        branch_direction == analyze_branch(user_input, current_act_of(acts, n))
        messages         == build_messages(h, n, current_act_of(acts, n),
                                           memory_content, branch_direction)
        ai_response      == call_glm_api(c_out)
        r == IF Truthy(ai_response)
             THEN on_response(h, n, shown, cache, ai_response, branch_direction, acts, s_out)
             ELSE on_no_response(h, n, shown, cache, branch_direction, acts)
    IN  [history |-> r.history, audio_cache |-> r.audio_cache, act_num |-> r.act_num,
         opening_shown |-> r.opening_shown, pending_input |-> None,
         synth |-> r.synth, audio_data |-> r.audio_data,
         memory_content |-> memory_content, branch_direction |-> branch_direction,
         messages |-> messages, ai_response |-> ai_response]

-----------------------------------------------------------------------------
(* The session: one action per path through one run of main() *)

NoRun ==
    [path |-> "init", opening_appended |-> FALSE, completion_called |-> FALSE,
     ai_response |-> None, memory_content |-> None, branch_direction |-> None,
     synth_calls |-> 0, audio_data |-> None, played |-> None, user_input |-> None,
     act |-> 0, messages |-> << >>]

MatcherOff ==
    /\ m_pc = "off"
    /\ m_input = << >>
    /\ m_soul = [memory_fragments |-> << >>, memories |-> << >>]
    /\ m_act = ActA
    /\ m_result = None

SessionStart(ld, sd) ==
    /\ loop_data = ld
    /\ soul_data = sd
    /\ act_num = init_act_num
    /\ history = << >>
    /\ opening_shown = FALSE
    /\ pending_input = None
    /\ audio_cache = << >>
    /\ run = NoRun
    /\ synth_log = << >>
    /\ opening_count = [a \in 1..Len(ld.acts) |-> 0]

Init ==
    /\ \E ld \in Scripts, sd \in Souls : SessionStart(ld, sd)
    /\ MatcherOff

CountOpening(o) ==
    opening_count' = IF o.appended
                     THEN [opening_count EXCEPT ![act_num] = @ + 1]
                     ELSE opening_count

\* lines 153-156: the story has ended, st.stop()
MainStop ==
    /\ story_ended(act_num, loop_data.acts)
    /\ run' = [NoRun EXCEPT !.path = "stop"]
    /\ UNCHANGED <<session_vars, synth_log, opening_count>>

\* lines 158-241: a pending input is answered, then st.rerun()
MainProcess(c_out, s_out) ==
    /\ ~story_ended(act_num, loop_data.acts)
    /\ LET o == show_opening(history, opening_shown, loop_data, act_num)
       IN  /\ Truthy(pending_input)
           /\ LET p == process_pending(o.history, act_num, o.opening_shown, audio_cache,
                                       pending_input[1], soul_data, loop_data.acts,
                                       c_out, s_out)
              IN  /\ history' = p.history
                  /\ act_num' = p.act_num
                  /\ opening_shown' = p.opening_shown
                  /\ pending_input' = p.pending_input
                  /\ audio_cache' = p.audio_cache
                  /\ synth_log' = synth_log \o p.synth
                  /\ run' = [path |-> "process", opening_appended |-> o.appended,
                             completion_called |-> TRUE, ai_response |-> p.ai_response,
                             memory_content |-> p.memory_content,
                             branch_direction |-> p.branch_direction,
                             synth_calls |-> Len(p.synth), audio_data |-> p.audio_data,
                             played |-> render_audio(o.history, audio_cache),
                             user_input |-> pending_input,
                             act |-> act_num, messages |-> p.messages]
           /\ CountOpening(o)

\* lines 158-178 and 244-250: st.chat_input delivers a text, then st.rerun()
MainInput(value) ==
    /\ ~story_ended(act_num, loop_data.acts)
    /\ ~Truthy(pending_input)
    /\ Truthy(value)
    /\ Len(history) < MaxHistory
    /\ LET o == show_opening(history, opening_shown, loop_data, act_num)
       IN  /\ history' = Append(o.history, Message("user", value[1]))
           /\ pending_input' = value
           /\ opening_shown' = o.opening_shown
           /\ run' = [NoRun EXCEPT !.path = "input", !.opening_appended = o.appended,
                                   !.played = render_audio(o.history, audio_cache),
                                   !.user_input = value, !.act = act_num]
           /\ CountOpening(o)
    /\ UNCHANGED <<act_num, audio_cache, synth_log>>

\* lines 158-178 and 244-246: st.chat_input delivers nothing, the run ends
MainIdle(value) ==
    /\ ~story_ended(act_num, loop_data.acts)
    /\ ~Truthy(pending_input)
    /\ ~Truthy(value)
    /\ LET o == show_opening(history, opening_shown, loop_data, act_num)
       IN  /\ history' = o.history
           /\ opening_shown' = o.opening_shown
           /\ run' = [NoRun EXCEPT !.path = "idle", !.opening_appended = o.appended,
                                   !.played = render_audio(o.history, audio_cache),
                                   !.act = act_num]
           /\ CountOpening(o)
    /\ UNCHANGED <<act_num, pending_input, audio_cache, synth_log>>

Main ==
    \/ MainStop
    \/ \E c_out \in CompletionOutcomes, s_out \in SynthesisOutcomes : MainProcess(c_out, s_out)
    \/ \E value \in ChatValues : MainInput(value)
    \/ \E value \in ChatValues : MainIdle(value)

Next == Main /\ UNCHANGED <<loop_data, soul_data, matcher_vars>>

Spec == Init /\ [][Next]_vars

\* the run that st.rerun() starts after an input was accepted
ProcessStep ==
    /\ \E c_out \in CompletionOutcomes, s_out \in SynthesisOutcomes : MainProcess(c_out, s_out)
    /\ UNCHANGED <<loop_data, soul_data, matcher_vars>>

\* ProcessStep can be taken: this is ENABLED <<ProcessStep>>_vars, since beyond
\* these two guards MainProcess only assigns, and it always clears pending_input
CanProcess == Truthy(pending_input) /\ ~story_ended(act_num, loop_data.acts)

\* st.rerun() at line 250 always starts that run, and both endpoint calls
\* return within their timeout: weak fairness of ProcessStep, written out
\* with CanProcess for its enabling condition
FairSpec == Spec /\ ([]<>(~CanProcess) \/ []<><<ProcessStep>>_vars)

-----------------------------------------------------------------------------
(* The matchers on their own: every input against every table *)

SeqsUpTo(S, n) == UNION { [1..k -> S] : k \in 0..n }

MatchChars == { "a", "A", "b", "c" }

MatchInputs == SeqsUpTo(MatchChars, 2)

KW_a == << <<"a">> >>

KW_Ab == << <<"A","b">> >>

KW_b_ab == << <<"b">>, <<"a","b">> >>

KW_empty == << << >> >>

KW_B == << <<"B">> >>

MatchEntries ==
    { Fragment(KW_a, <<"1">>), Fragment(KW_Ab, <<"2">>), Fragment(KW_b_ab, <<"3">>),
      Fragment(KW_empty, <<"4">>), LegacyFragment(KW_B, <<"5">>),
      Fragment(<< >>, <<"6">>) }

MatchTables == SeqsUpTo(MatchEntries, MaxTable)

MatchSouls ==
    { [memory_fragments |-> t, memories |-> << >>] : t \in MatchTables }
    \cup { [memory_fragments |-> << >>, memories |-> t] : t \in MatchTables }

MatchBranches ==
    { Branch(KW_a, NEXT_ACT), Branch(KW_Ab, <<"2">>), Branch(KW_b_ab, <<"3">>),
      Branch(KW_empty, <<"4">>), Branch(<< >>, <<"6">>) }

MatchActs == { Act(T_A, None, b) : b \in SeqsUpTo(MatchBranches, MaxTable) }

MatchInit ==
    /\ SessionStart([acts |-> << ActA >>], [memory_fragments |-> << >>, memories |-> << >>])
    /\ m_pc = "start"
    /\ m_input \in MatchInputs
    /\ \/ m_soul \in MatchSouls /\ m_act = ActA
       \/ m_soul = [memory_fragments |-> << >>, memories |-> << >>] /\ m_act \in MatchActs
    /\ m_result = None

ApplyMemory ==
    /\ m_pc = "start"
    /\ m_pc' = "memory"
    /\ m_result' = check_memory_triggers(m_input, m_soul)
    /\ UNCHANGED <<m_input, m_soul, m_act>>

ApplyBranch ==
    /\ m_pc = "start"
    /\ m_pc' = "branch"
    /\ m_result' = analyze_branch(m_input, m_act)
    /\ UNCHANGED <<m_input, m_soul, m_act>>

MatchNext ==
    /\ ApplyMemory \/ ApplyBranch
    /\ UNCHANGED <<loop_data, soul_data, session_vars, run, synth_log, opening_count>>

MatchSpec == MatchInit /\ [][MatchNext]_vars

-----------------------------------------------------------------------------
(* The prompt assembly on its own: histories longer than the window *)

\* a transcript of n messages with alternating roles, numbered in order
Transcript(n, first_role) ==
    [i \in 1..n |->
        Message(IF i % 2 = 1 THEN first_role
                ELSE IF first_role = "user" THEN "assistant" ELSE "user",
                <<"#">> \o int_to_str(i))]

PromptHistories ==
    { Transcript(n, r) : n \in 0..MaxPromptHistory, r \in {"user", "assistant"} }

PromptActs ==
    { [Act(T_A, None, << >>) EXCEPT !.narrative_beats = b] :
        b \in { << >>, << T_X >>, << T_X, T_Z >> } }

PromptArguments ==
    [history : PromptHistories, act_num : {1, 12},
     memory_content : {None, Some(T_M)},
     branch_direction : {None, Some(NEXT_ACT), Some(T_X)}]

PromptInit ==
    /\ SessionStart([acts |-> << ActA >>], [memory_fragments |-> << >>, memories |-> << >>])
    /\ m_pc = "start"
    /\ m_input \in PromptArguments
    /\ m_soul = [memory_fragments |-> << >>, memories |-> << >>]
    /\ m_act \in PromptActs
    /\ m_result = None

ApplyBuildMessages ==
    /\ m_pc = "start"
    /\ m_pc' = "prompt"
    /\ m_result' = build_messages(m_input.history, m_input.act_num, m_act,
                                  m_input.memory_content, m_input.branch_direction)
    /\ UNCHANGED <<m_input, m_soul, m_act>>

PromptNext ==
    /\ ApplyBuildMessages
    /\ UNCHANGED <<loop_data, soul_data, session_vars, run, synth_log, opening_count>>

PromptSpec == PromptInit /\ [][PromptNext]_vars

-----------------------------------------------------------------------------
(* Vocabulary of the properties *)

TotalActs == Len(loop_data.acts)

\* the step just taken answered the pending input
Processing == Truthy(pending_input) /\ run'.path = "process"

\* the branch direction the pending input resolves to in the current act
ResolvedDirection == analyze_branch(pending_input[1], loop_data.acts[act_num])

\* the completion call of the step just taken produced an utterance
Generated == Truthy(run'.ai_response)

-----------------------------------------------------------------------------
(* Properties of the session *)

C1_ActNumInRange == 1 <= act_num /\ act_num <= TotalActs + 1

C1_TerminalRunIsInert ==
    act_num = TotalActs + 1 =>
        /\ UNCHANGED session_vars
        /\ ~run'.completion_called
        /\ run'.synth_calls = 0
        /\ synth_log' = synth_log

\* C1: act_num always lies in 1..len(acts)+1 (also for a script without acts),
\* and a run of main that starts with act_num = len(acts)+1 changes nothing of
\* the session and calls neither endpoint.
C1_Theorem == []C1_ActNumInRange /\ [][C1_TerminalRunIsInert]_vars

C1_Witness == act_num = TotalActs + 1 /\ run.path = "stop"

\* C2: act_num moves only while a pending input is answered and only by +1,
\* together with opening_shown := false, exactly when the resolved direction
\* is next_act, act_num < len(acts) and an utterance was generated; every
\* other step leaves act_num as it was.
C2_Theorem ==
    [][ IF Processing /\ Generated /\ act_num < TotalActs
           /\ ResolvedDirection = Some(NEXT_ACT)
        THEN act_num' = act_num + 1 /\ opening_shown' = FALSE
        ELSE act_num' = act_num ]_vars

C2_Witness ==
    /\ run.path = "process"
    /\ run.branch_direction = Some(NEXT_ACT)
    /\ Truthy(run.ai_response)
    /\ act_num = 2
    /\ opening_shown = FALSE

\* C3: answering an input that resolves to next_act in the last act, with an
\* utterance generated, takes the session to the terminal state
\* act_num > len(acts).
C3_AdvancePastLastActTerminates ==
    [][ (Processing /\ Generated /\ act_num = TotalActs
         /\ ResolvedDirection = Some(NEXT_ACT))
        => act_num' > TotalActs ]_vars

\* C4: when the completion call yields no utterance, the step leaves history
\* (ending in the user message of that input), act_num, opening_shown and
\* audio_cache as they were, calls no synthesis and clears pending_input; a
\* completion call is only ever made for a pending input, and only the input
\* step sets one.
C4_Theorem ==
    [][ /\ (Processing /\ ~Generated) =>
              /\ history' = history
              /\ Len(history) > 0
              /\ history[Len(history)] = Message("user", pending_input[1])
              /\ act_num' = act_num
              /\ opening_shown' = opening_shown
              /\ audio_cache' = audio_cache
              /\ synth_log' = synth_log
              /\ run'.synth_calls = 0
              /\ pending_input' = None
        /\ run'.completion_called => Truthy(pending_input)
        /\ Truthy(pending_input') => run'.path = "input" ]_vars

C4_Witness ==
    /\ run.path = "process"
    /\ run.completion_called
    /\ run.ai_response = None
    /\ run.branch_direction = Some(NEXT_ACT)
    /\ act_num = 1 /\ TotalActs = 2
    /\ pending_input = None
    /\ history[Len(history)].role = "user"

\* C5: for every act, its opening line has been appended to history at most
\* once, whatever runs, inputs, failures and advances happened.
C5_Theorem == \A a \in DOMAIN opening_count : opening_count[a] <= 1

C5_Witness ==
    /\ TotalActs = 2 /\ act_num = 2
    /\ opening_count[1] = 1 /\ opening_count[2] = 1
    /\ run.path = "idle" /\ ~run.opening_appended
    /\ Len(history) > 4

-----------------------------------------------------------------------------
(* Properties of the matchers, stated against a first-match reference scan *)

\* needle occurs in hay as a contiguous slice
IsInfix(needle, hay) ==
    \E a \in 0..Len(hay) : \E b \in a..Len(hay) : SubSeq(hay, a + 1, b) = needle

\* the (keywords, text) view of a memory table entry in either schema
EntryKeywords(e) == IF e.trigger_keywords # << >> THEN e.trigger_keywords ELSE e.keywords

EntryText(e) == IF Truthy(e.fragment) THEN e.fragment ELSE e.content

SoulTable(sd) == IF sd.memory_fragments # << >> THEN sd.memory_fragments ELSE sd.memories

\* positions of the entries one of whose keywords, lowercased, occurs in the
\* lowercased input
Hits(keyword_lists, input) ==
    { i \in 1..Len(keyword_lists) :
        \E k \in 1..Len(keyword_lists[i]) :
            IsInfix(lower(keyword_lists[i][k]), lower(input)) }

FirstOf(S) == CHOOSE i \in S : \A j \in S : i <= j

RefMemory(input, sd) ==
    LET table == SoulTable(sd)
        hits  == Hits([i \in 1..Len(table) |-> EntryKeywords(table[i])], input)
    IN  IF hits = {} THEN None ELSE EntryText(table[FirstOf(hits)])

RefBranch(input, act) ==
    LET hits == Hits([i \in 1..Len(act.branches) |-> act.branches[i].triggers], input)
    IN  IF hits = {} THEN None ELSE act.branches[FirstOf(hits)].direction

\* C6: check_memory_triggers and analyze_branch return what the first-match
\* reference scan returns: the text / direction of the first entry, in table
\* order, with a keyword whose lowercase form occurs in the lowercased input,
\* and nothing when there is no such entry.
C6_Theorem ==
    /\ m_pc = "memory" => m_result = RefMemory(m_input, m_soul)
    /\ m_pc = "branch" => m_result = RefBranch(m_input, m_act)

\* two entries match an input with an upper-case letter, the later one by the
\* longer keyword, and the earlier one is returned
C6_Witness ==
    /\ m_pc = "memory"
    /\ m_input = <<"A","b">>
    /\ m_soul.memory_fragments = << Fragment(KW_a, <<"1">>), Fragment(KW_Ab, <<"2">>) >>
    /\ m_result = Some(<<"1">>)

\* every keyword of every entry of the memory table, in either schema
AllSoulKeywords(sd) ==
    UNION { { sd.memory_fragments[i].trigger_keywords[k] :
                k \in DOMAIN sd.memory_fragments[i].trigger_keywords }
            \cup { sd.memory_fragments[i].keywords[k] :
                k \in DOMAIN sd.memory_fragments[i].keywords } :
            i \in DOMAIN sd.memory_fragments }
    \cup
    UNION { { sd.memories[i].trigger_keywords[k] :
                k \in DOMAIN sd.memories[i].trigger_keywords }
            \cup { sd.memories[i].keywords[k] :
                k \in DOMAIN sd.memories[i].keywords } :
            i \in DOMAIN sd.memories }

AllActTriggers(act) ==
    UNION { { act.branches[i].triggers[k] : k \in DOMAIN act.branches[i].triggers } :
            i \in DOMAIN act.branches }

\* C7 as stated: for the empty input both matchers return nothing, whatever
\* the keywords are.
C7_EmptyInputMatchesNothing ==
    (m_pc \in {"memory", "branch"} /\ m_input = << >>) => m_result = None

\* C7 as amended: for the empty input both matchers return nothing provided
\* no keyword of the table / branch list is the empty string.
C7_Theorem ==
    /\ (m_pc = "memory" /\ m_input = << >> /\ << >> \notin AllSoulKeywords(m_soul))
            => m_result = None
    /\ (m_pc = "branch" /\ m_input = << >> /\ << >> \notin AllActTriggers(m_act))
            => m_result = None

C7_Witness ==
    /\ m_pc = "branch"
    /\ m_input = << >>
    /\ Len(m_act.branches) = 2
    /\ AllActTriggers(m_act) # {}
    /\ << >> \notin AllActTriggers(m_act)
    /\ m_result = None

-----------------------------------------------------------------------------
(* Properties of the audio cache *)

\* C8: every assistant message of history, opening lines included, has had
\* exactly one synthesis call, made for its position.
C8_OneSynthesisPerAssistantMessage ==
    \A i \in 1..Len(history) :
        history[i].role = "assistant" =>
            Cardinality({ j \in 1..Len(synth_log) : synth_log[j].idx = i - 1 }) = 1

\* position of the first "_" of a key, 0 if there is none
UnderscoreAt(key) ==
    IF \E u \in 1..Len(key) : key[u] = "_"
    THEN FirstOf({ u \in 1..Len(key) : key[u] = "_" })
    ELSE 0

DigitValue(c) ==
    IF \E d \in 1..10 : Digits[d] = c THEN (CHOOSE d \in 1..10 : Digits[d] = c) - 1 ELSE -1

RECURSIVE ParseInt(_)
\* the number a digit string denotes, -1 if it is not a digit string
ParseInt(ds) ==
    IF Len(ds) = 0 \/ DigitValue(ds[Len(ds)]) < 0 THEN -1
    ELSE IF Len(ds) = 1 THEN DigitValue(ds[1])
    ELSE LET hi == ParseInt(SubSeq(ds, 1, Len(ds) - 1))
         IN  IF hi < 0 THEN -1 ELSE 10 * hi + DigitValue(ds[Len(ds)])

\* the position part and the prefix part of a cache key
KeyPosition(key) ==
    IF UnderscoreAt(key) = 0 THEN -1 ELSE ParseInt(SubSeq(key, 1, UnderscoreAt(key) - 1))

KeyPrefix(key) == SubSeq(key, UnderscoreAt(key) + 1, Len(key))

\* C9: every key of audio_cache names one position of history, the message
\* there is an assistant message whose first 50 characters are the key's
\* prefix part, no other message has that key, and no two positions of
\* history have the same key.
C9_Theorem ==
    /\ \A key \in DOMAIN audio_cache :
          LET pos == KeyPosition(key)
          IN  /\ 0 <= pos /\ pos < Len(history)
              /\ history[pos + 1].role = "assistant"
              /\ IF Len(history[pos + 1].content) <= 50
                 THEN history[pos + 1].content = KeyPrefix(key)
                 ELSE SubSeq(history[pos + 1].content, 1, 50) = KeyPrefix(key)
              /\ \A i \in 1..Len(history) :
                    msg_key(i - 1, history[i].content) = key => i = pos + 1
    /\ \A i, j \in 1..Len(history) :
          i # j => msg_key(i - 1, history[i].content) # msg_key(j - 1, history[j].content)

\* two assistant messages with the same content, both cached
C9_Witness ==
    \E i, j \in 1..Len(history) :
        /\ i < j
        /\ history[i] = history[j]
        /\ history[i].role = "assistant"
        /\ msg_key(i - 1, history[i].content) \in DOMAIN audio_cache
        /\ msg_key(j - 1, history[j].content) \in DOMAIN audio_cache

\* the synthesis call of the step just taken was made and gave no audio
SynthesisFailed == run'.synth_calls = 1 /\ ~Truthy(run'.audio_data)

\* C10: when synthesis fails for a generated utterance, the utterance is
\* appended to history all the same, audio_cache gets no entry, act_num and
\* opening_shown move exactly as the advance rule says, pending_input is
\* cleared and the session is left where the next input is accepted.
C10_Theorem ==
    [][ (Processing /\ Generated /\ SynthesisFailed) =>
           /\ history' = Append(history, Message("assistant", run'.ai_response[1]))
           /\ audio_cache' = audio_cache
           /\ IF ResolvedDirection = Some(NEXT_ACT) /\ act_num < TotalActs
              THEN act_num' = act_num + 1 /\ opening_shown' = FALSE
              ELSE act_num' = act_num /\ opening_shown' = opening_shown
           /\ pending_input' = None
           /\ act_num' <= TotalActs ]_vars

C10_Witness ==
    /\ run.path = "process"
    /\ Truthy(run.ai_response)
    /\ run.synth_calls = 1
    /\ run.audio_data = None
    /\ run.branch_direction = Some(NEXT_ACT)
    /\ act_num = 2
    /\ history[Len(history)] = Message("assistant", run.ai_response[1])
    /\ audio_cache = << >>

-----------------------------------------------------------------------------
(* Properties of the turn *)

\* C11: a pending input is answered by the run right after the one that
\* accepted it, act_num is the same in both, and the branch direction of the
\* turn is the one the input resolves to among the branches of that act.
C11_Theorem ==
    [][ /\ run'.path = "input" => (act_num' = act_num /\ run'.act = act_num)
        /\ Processing =>
              /\ run.path = "input"
              /\ run.user_input = pending_input
              /\ run.act = act_num
              /\ run'.act = run.act
              /\ run'.branch_direction =
                    analyze_branch(run.user_input[1], loop_data.acts[run.act]) ]_vars

\* in the second act "no" resolves to a direction the first act does not have
C11_Witness ==
    /\ run.path = "process"
    /\ run.act = 2
    /\ run.user_input = Some(T_NO)
    /\ run.branch_direction = Some(T_X)

\* C12: an input is accepted only when none is pending, it becomes the
\* pending input and the last message of history, and every completion call
\* consumes the pending input, so no input is answered by two calls.
C12_Theorem ==
    [][ /\ run'.path = "input" =>
              /\ ~Truthy(pending_input)
              /\ Truthy(pending_input')
              /\ history'[Len(history')] = Message("user", pending_input'[1])
        /\ run'.completion_called =>
              /\ Truthy(pending_input)
              /\ run.path = "input"
              /\ pending_input' = None ]_vars

\* a second input is accepted after the first one was answered
C12_Witness ==
    /\ run.path = "input"
    /\ Truthy(pending_input)
    /\ Cardinality({ i \in 1..Len(history) : history[i].role = "user" }) = 2
    /\ Cardinality({ i \in 1..Len(history) : history[i].role = "assistant" }) >= 1

\* the current act has an opening line that has not been appended yet
OpeningDue ==
    /\ act_num <= TotalActs
    /\ ~opening_shown
    /\ Truthy(get_current_act_opening(loop_data, act_num))

OpeningMessage == Message("assistant", get_current_act_opening(loop_data, act_num)[1])

\* C13: the step that advances to an act with an opening line leaves that
\* opening due, with the reply as last message and no input pending; at
\* session start the opening of the first act is due with history empty; and
\* whenever an opening is due, the next run appends it as the very next
\* message, ahead of any user message, and makes no completion call.
C13_Theorem ==
    /\ [] ( run.path = "init" =>
              /\ history = << >>
              /\ Truthy(get_current_act_opening(loop_data, 1)) => OpeningDue )
    /\ [][ /\ ( act_num' # act_num
                /\ Truthy(get_current_act_opening(loop_data, act_num')) ) =>
                  /\ OpeningDue'
                  /\ pending_input' = None
                  /\ history'[Len(history')] = Message("assistant", run'.ai_response[1])
           /\ OpeningDue =>
                  /\ Len(history') > Len(history)
                  /\ history'[Len(history) + 1] = OpeningMessage
                  /\ SubSeq(history', 1, Len(history)) = history
                  /\ ~run'.completion_called
                  /\ opening_shown' ]_vars

\* the opening of the second act directly follows the reply that advanced
C13_Witness ==
    /\ act_num = 2
    /\ run.opening_appended
    /\ run.path = "input"
    /\ Len(history) = 5
    /\ history[3].role = "assistant"
    /\ history[4] = OpeningMessage
    /\ history[5].role = "user"

\* C14: whatever text the completion endpoint returns without error, the
\* step appends one assistant message with exactly that text to the end of
\* history and then applies the advance rule.
C14_EveryReturnedTextIsAppended ==
    [][ (Processing /\ run'.ai_response # None) =>
           /\ history' = Append(history, Message("assistant", run'.ai_response[1]))
           /\ IF ResolvedDirection = Some(NEXT_ACT) /\ act_num < TotalActs
              THEN act_num' = act_num + 1
              ELSE act_num' = act_num ]_vars

\* C15: in the run that follows a turn whose synthesis succeeded, the reply
\* of that turn is rendered as the last message and its clip is played.
C15_ReplyClipPlayedInNextRun ==
    [][ (run.path = "process" /\ Truthy(run.ai_response) /\ Truthy(run.audio_data)) =>
           /\ history[Len(history)] = Message("assistant", run.ai_response[1])
           /\ run'.played = Some(msg_key(Len(history) - 1, run.ai_response[1])) ]_vars

\* the messages a step added to history
Added == SubSeq(history', Len(history) + 1, Len(history'))

\* C16: every step keeps the messages history already had, in place; a user
\* message is added only by the input step, which adds exactly one, last,
\* with the submitted text as content; every other added message is an
\* assistant message.
C16_Theorem ==
    [][ /\ Len(history') >= Len(history)
        /\ SubSeq(history', 1, Len(history)) = history
        /\ \A i \in 1..Len(Added) :
              IF Added[i].role = "user"
              THEN /\ run'.path = "input"
                   /\ i = Len(Added)
                   /\ Added[i].content = run'.user_input[1]
              ELSE Added[i].role = "assistant"
        /\ run'.path = "input" =>
              /\ Len(Added) >= 1
              /\ Added[Len(Added)].role = "user"
        /\ run'.path # "input" =>
              \A i \in 1..Len(Added) : Added[i].role = "assistant" ]_vars

\* one run appended an opening line and then the user message
C16_Witness ==
    /\ run.path = "input"
    /\ run.opening_appended
    /\ Len(history) = 2
    /\ history[1].role = "assistant"
    /\ history[2] = Message("user", run.user_input[1])

-----------------------------------------------------------------------------
(* Properties of the prompt *)

RECURSIVE SplitLines(_)
\* the lines of a text, cut at every newline
SplitLines(text) ==
    IF \E i \in 1..Len(text) : text[i] = "\n"
    THEN LET cut == FirstOf({ i \in 1..Len(text) : text[i] = "\n" })
         IN  << SubSeq(text, 1, cut - 1) >> \o SplitLines(SubSeq(text, cut + 1, Len(text)))
    ELSE << text >>

RECURSIVE BeatsLine(_)
\* the beats, each but the last followed by " | "
BeatsLine(beats) ==
    IF Len(beats) = 1 THEN beats[1]
    ELSE beats[1] \o <<" ", "|", " ">> \o BeatsLine(Tail(beats))

\* the lines the context message is to have
ExpectedContextLines(n, act, memory_content, branch_direction) ==
    << <<"[current act: no.]">> \o int_to_str(n) \o <<"[act]">>,
       <<"[act title: ]">> \o act.title,
       <<"[act description: ]">> \o act.description >>
    \o (IF act.narrative_beats # << >>
        THEN << <<"[narrative beats: ]">> \o BeatsLine(act.narrative_beats) >> ELSE << >>)
    \o (IF memory_content # None
        THEN << <<"[triggered memory: ]">> \o memory_content[1] >> ELSE << >>)
    \o (IF branch_direction # None
        THEN << <<"[branch direction: ]">> \o branch_direction[1] >> ELSE << >>)

\* messages is the persona message, one system message with the expected
\* lines, and the last min(10, len(h)) messages of h, unchanged and in order
IsExpectedPrompt(messages, h, n, act, memory_content, branch_direction) ==
    LET k == IF Len(h) < 10 THEN Len(h) ELSE 10
    IN  /\ Len(messages) = 2 + k
        /\ messages[1] = Message("system", <<"[persona]">>)
        /\ messages[2].role = "system"
        /\ SplitLines(messages[2].content)
              = ExpectedContextLines(n, act, memory_content, branch_direction)
        /\ \A i \in 1..k : messages[2 + i] = h[Len(h) - k + i]

C18_Theorem ==
    [][ run'.completion_called =>
           /\ ~run'.opening_appended
           /\ history[Len(history)] = Message("user", pending_input[1])
           /\ run'.messages[Len(run'.messages)] = Message("user", pending_input[1])
           /\ IsExpectedPrompt(run'.messages, history, act_num, loop_data.acts[act_num],
                               check_memory_triggers(pending_input[1], soul_data),
                               ResolvedDirection) ]_vars

\* the second input of a session that began with an opening line is answered
C18_Witness ==
    /\ run.path = "process"
    /\ run.completion_called
    /\ Len(run.messages) = 6
    /\ run.messages[3].role = "assistant"
    /\ run.messages[6] = Message("user", run.user_input[1])

-----------------------------------------------------------------------------
(* Progress of a turn *)

\* the pending input has been answered by a completion call
Answered == ~Truthy(pending_input) /\ run.path = "process" /\ run.completion_called

\* C19: with the rerun after an accepted input always taking place, a
\* pending input leads to a state where nothing is pending and the completion
\* call for it has been made; the only step possible while it is pending is
\* the one run that makes that call and clears it, and while it is pending
\* the session is not terminal.
C19_Theorem ==
    /\ Truthy(pending_input) ~> Answered
    /\ [] (Truthy(pending_input) => act_num <= TotalActs)
    /\ [][ Truthy(pending_input) =>
              /\ run'.path = "process"
              /\ run'.completion_called
              /\ run'.user_input = pending_input
              /\ pending_input' = None ]_vars

\* an accepted input was answered and the session is idle again
C19_Witness ==
    /\ Answered
    /\ run.user_input = Some(T_Z)
    /\ history[Len(history)].role = "assistant"
    /\ Len(history) = 2

====
